---- MODULE Spec2Model ----
(***************************************************************************)
(* A model of pluggy's PluginManager (src/src/pluggy/_manager.py): the     *)
(* name -> plugin registry, the hook namespace with one HookCaller per     *)
(* hook name, registration / unregistration / blocking, hook               *)
(* specifications and validation, check_pending, call monitoring and       *)
(* subset hook callers.                                                    *)
(*                                                                         *)
(* HookCaller, HookImpl, _SubsetHookCaller (pluggy/_hooks.py), _multicall  *)
(* (pluggy/_callers.py) and _Result (pluggy/_result.py) are modelled from  *)
(* the design document, sections 3 and 4.3-4.6.                            *)
(***************************************************************************)
EXTENDS Integers, Sequences, FiniteSets, TLC

VARIABLES
    name2plugin,      \* PluginManager._name2plugin
    hooks,            \* PluginManager.hook.__dict__: hook name -> HookCaller
    inner_hookexec,   \* PluginManager._inner_hookexec: the installed call engine
    oldcalls,         \* oldcall captured by the i-th add_hookcall_monitoring
    undone,           \* installations whose undo() has been called
    subset,           \* the caller last returned by subset_hook_caller
    lastOp,           \* the last operation: arguments, result, what it invoked
    roundtrip         \* the registry before a register that unregister follows

vars == <<name2plugin, hooks, inner_hookexec, oldcalls, undone, subset, lastOp,
          roundtrip>>

(***************************************************************************)
(* Bounds of the model.                                                    *)
(***************************************************************************)
MaxHistory == 2       \* historic calls logged per hook
MaxMonitors == 2      \* add_hookcall_monitoring installations

None == "<None>"

(***************************************************************************)
(* The plugin objects handed to the manager.  A plugin is any object: it   *)
(* may or may not carry __name__, and it may be falsy (a class defining    *)
(* __bool__ or __len__).  id is str(id(plugin)).                           *)
(***************************************************************************)
Plugins == {"P1", "P2", "P3"}

PluginObject(p) ==
    CASE p = "P1" -> [__name__ |-> "p1", truthy |-> TRUE,  id |-> "id1"]
      [] p = "P2" -> [__name__ |-> "p2", truthy |-> TRUE,  id |-> "id2"]
      [] p = "P3" -> [__name__ |-> None, truthy |-> FALSE, id |-> "id3"]

\* a member of a plugin that carries no implementation marker
Unmarked(member) ==
    [member |-> member, marked |-> FALSE, specname |-> None,
     hookwrapper |-> FALSE, optionalhook |-> FALSE, tryfirst |-> FALSE,
     trylast |-> FALSE, argnames |-> {}, isgen |-> FALSE, ret |-> None]

\* a marked member: its normalized options (specname, hookwrapper,
\* optionalhook, tryfirst, trylast) default to None / FALSE; argnames, isgen
\* and ret describe the function: the arguments it declares, whether it is a
\* generator function, and what a call of it returns ("raise": it raises)
Impl(member, specname, argnames, ret) ==
    [Unmarked(member) EXCEPT !.marked = TRUE, !.specname = specname,
                             !.argnames = argnames, !.ret = ret]

\* dir(plugin): the members of the plugin in sorted order
PluginMembers ==
    [p \in Plugins |->
        CASE p = "P1" -> << [Impl("foo", "h", {"x"}, "r1") EXCEPT !.trylast = TRUE],
                            Impl("h", None, {"x"}, "r2"),
                            Unmarked("helper") >>
          [] p = "P2" -> << Impl("_p", None, {"x"}, "raise"),
                            [Impl("g", None, {"y"}, "r3")
                                EXCEPT !.optionalhook = TRUE],
                            [Impl("h", None, {"x"}, None)
                                EXCEPT !.hookwrapper = TRUE, !.isgen = TRUE] >>
          [] p = "P3" -> << [Impl("bar", "h", {"x"}, None)
                                EXCEPT !.optionalhook = TRUE],
                            [Impl("opt", "g", {"x"}, "r4")
                                EXCEPT !.optionalhook = TRUE] >>]

Members(p) == PluginMembers[p]

PluginAttrs == [p \in Plugins |-> {Members(p)[i].member : i \in 1..Len(Members(p))}]

\* hasattr(plugin, name)
HasAttr(p, name) == name \in PluginAttrs[p]

HookNames == {"_p", "g", "h"}

(***************************************************************************)
(* The specification namespaces handed to add_hookspecs, each the sorted   *)
(* sequence of its marked members.                                         *)
(***************************************************************************)
SpecModules == {"M0", "M1", "M2", "M3"}

SpecOpts(name, argnames, historic, firstresult) ==
    [name |-> name, argnames |-> argnames, historic |-> historic,
     firstresult |-> firstresult]

NamespaceSpecs ==
    [m \in SpecModules |->
        CASE m = "M0" -> << >>
          [] m = "M1" -> << SpecOpts("h", {"x"}, FALSE, FALSE) >>
          [] m = "M2" -> << SpecOpts("h", {"x"}, TRUE, FALSE) >>
          [] m = "M3" -> << SpecOpts("_p", {"x"}, FALSE, FALSE),
                            SpecOpts("g", {"x"}, FALSE, TRUE) >>]

\* the members of module_or_class that parse_hookspec_opts recognizes
ModuleSpecs(m) == NamespaceSpecs[m]

\* names callers pass explicitly to register / unregister / set_blocked
ExplicitNames == {"", "p1"}

CallKwargs == {"x=1", "x=2"}

(***************************************************************************)
(* HookImpl and HookCaller records.                                        *)
(***************************************************************************)
\* HookImpl(plugin, plugin_name, method, hookimpl_opts), for the member m of
\* the plugin
HookImpl(plugin, plugin_name, m) ==
    [plugin |-> plugin, plugin_name |-> plugin_name, member |-> m.member,
     specname |-> m.specname, hookwrapper |-> m.hookwrapper,
     optionalhook |-> m.optionalhook, tryfirst |-> m.tryfirst,
     trylast |-> m.trylast, argnames |-> m.argnames, isgen |-> m.isgen,
     ret |-> m.ret]

NoSpec == [bound |-> FALSE, argnames |-> {}, historic |-> FALSE, firstresult |-> FALSE]

NoHook == [exists |-> FALSE, spec |-> NoSpec, impls |-> << >>, history |-> << >>]

\* _HookCaller(name, hookexec): no specification, no implementations
NewHookCaller == [NoHook EXCEPT !.exists = TRUE]

HasSpec(hook) == hook.spec.bound

IsHistoric(hook) == hook.spec.bound /\ hook.spec.historic

\* HookCaller.set_specification
SetSpecification(hook, opts) ==
    [hook EXCEPT !.spec = [bound |-> TRUE, argnames |-> opts.argnames,
                           historic |-> opts.historic,
                           firstresult |-> opts.firstresult]]

\* the tier of an implementation in HookCaller._hookimpls: plain before
\* wrappers, and within each trylast, then unmarked, then tryfirst
Tier(impl) ==
    (IF impl.hookwrapper THEN 3 ELSE 0)
    + (IF impl.trylast THEN 0 ELSE IF impl.tryfirst THEN 2 ELSE 1)

\* HookCaller._add_hookimpl: insert behind the last implementation of the
\* same or an earlier tier (registration order breaks ties)
AddHookimpl(hook, impl) ==
    LET n == Len(hook.impls)
        k == Cardinality({i \in 1..n : Tier(hook.impls[i]) <= Tier(impl)})
    IN [hook EXCEPT !.impls = SubSeq(hook.impls, 1, k) \o <<impl>>
                              \o SubSeq(hook.impls, k + 1, n)]

\* HookCaller._remove_plugin: drop the first implementation of the plugin
RemovePlugin(hook, plugin) ==
    LET n == Len(hook.impls)
        hits == {i \in 1..n : hook.impls[i].plugin = plugin}
    IN IF hits = {} THEN hook
       ELSE LET k == CHOOSE i \in hits : \A j \in hits : i <= j
            IN [hook EXCEPT !.impls = SubSeq(hook.impls, 1, k - 1)
                                      \o SubSeq(hook.impls, k + 1, n)]

(***************************************************************************)
(* The call engine: _multicall, and the engines add_hookcall_monitoring    *)
(* wraps around it.  An engine is the sequence of the monitor              *)
(* installations wrapped around _multicall, outermost last.                *)
(***************************************************************************)
NoImpl == HookImpl(None, None, Unmarked(None))

Event(kind, impl, mon, kwargs) ==
    [kind |-> kind, impl |-> impl, mon |-> mon, kwargs |-> kwargs]

IsWrapper(impl) == impl.hookwrapper

IsPlain(impl) == ~impl.hookwrapper

Reverse(s) == [i \in 1..Len(s) |-> s[Len(s) + 1 - i]]

RECURSIVE CallPlain(_, _, _)
\* the plain implementations, in order: stop at a failure, and in
\* first-result mode at the first non-null result; results are collected
\* most recently executed first
CallPlain(plain, kwargs, firstresult) ==
    IF plain = << >> THEN [events |-> << >>, results |-> << >>, exc |-> FALSE]
    ELSE LET impl == Head(plain)
             ret == impl.ret
             ev == << Event("call", impl, 0, kwargs) >>
         IN IF ret = "raise"
            THEN [events |-> ev, results |-> << >>, exc |-> TRUE]
            ELSE IF ret # None /\ firstresult
            THEN [events |-> ev, results |-> << ret >>, exc |-> FALSE]
            ELSE LET rest == CallPlain(Tail(plain), kwargs, firstresult)
                 IN [events |-> ev \o rest.events,
                     results |-> IF rest.exc THEN << >>
                                 ELSE rest.results
                                      \o (IF ret # None THEN << ret >> ELSE << >>),
                     exc |-> rest.exc]

\* the wrappers' first halves in order, the plain implementations, then the
\* wrappers' second halves in reverse order; the outcome is what the plain
\* implementations produced
MulticallResult(wrappers, inner, kwargs, firstresult) ==
    [events |-> [i \in 1..Len(wrappers) |-> Event("pre", wrappers[i], 0, kwargs)]
                \o inner.events
                \o [i \in 1..Len(wrappers) |->
                       Event("post", Reverse(wrappers)[i], 0, kwargs)],
     outcome |-> [exc |-> inner.exc, single |-> firstresult,
                  value |-> inner.results]]

\* _multicall(hook_name, hook_impls, caller_kwargs, firstresult)
Multicall(hook_name, methods, kwargs, firstresult) ==
    MulticallResult(SelectSeq(methods, IsWrapper),
                    CallPlain(SelectSeq(methods, IsPlain), kwargs, firstresult),
                    kwargs, firstresult)

\* variant: after is called before the engine runs
TracedResultAfterFirst(m, old, kwargs) ==
    [events |-> << Event("before", NoImpl, m, kwargs) >>
                \o << Event("after", NoImpl, m, kwargs) >>
                \o old.events,
     outcome |-> old.outcome]

\* variant: the outcome of the engine is not handed on
TracedResultWithoutOutcome(m, old, kwargs) ==
    [events |-> << Event("before", NoImpl, m, kwargs) >>
                \o old.events
                \o << Event("after", NoImpl, m, kwargs) >>,
     outcome |-> [exc |-> FALSE, single |-> old.outcome.single, value |-> << >>]]

\* traced_hookexec of installation m: before, the engine it was installed
\* on (old is what that engine did), after, and the engine's outcome
TracedResult(m, old, kwargs) ==
    [events |-> << Event("before", NoImpl, m, kwargs) >>
                \o old.events
                \o << Event("after", NoImpl, m, kwargs) >>,
     outcome |-> old.outcome]

RECURSIVE HookExec(_, _, _, _, _)
\* PluginManager._hookexec with self._inner_hookexec = engine; a traced
\* engine is traced_hookexec around the engine it was installed on
HookExec(engine, hook_name, methods, kwargs, firstresult) ==
    IF engine = << >> THEN Multicall(hook_name, methods, kwargs, firstresult)
    ELSE TracedResult(engine[Len(engine)],
                      HookExec(SubSeq(engine, 1, Len(engine) - 1),
                               hook_name, methods, kwargs, firstresult),
                      kwargs)

RECURSIVE ApplyHistory(_, _, _, _)
RECURSIVE ApplyRest(_, _, _, _, _)
\* res is the replay of the first logged call: stop if it failed, else go on
\* with the rest of the log
ApplyRest(res, engine, hook_name, history, impl) ==
    IF res.outcome.exc THEN [events |-> res.events, err |-> "ImplError"]
    ELSE [events |-> res.events
                     \o ApplyHistory(engine, hook_name, history, impl).events,
          err |-> ApplyHistory(engine, hook_name, history, impl).err]

ApplyHistory(engine, hook_name, history, impl) ==
    IF history = << >> THEN [events |-> << >>, err |-> None]
    ELSE ApplyRest(HookExec(engine, hook_name, << impl >>, Head(history), FALSE),
                   engine, hook_name, Tail(history), impl)

\* HookCaller._maybe_apply_history: replay the logged historic calls, in log
\* order, against the implementation being attached
MaybeApplyHistory(engine, hook_name, hook, impl) ==
    IF IsHistoric(hook) THEN ApplyHistory(engine, hook_name, hook.history, impl)
    ELSE [events |-> << >>, err |-> None]

(***************************************************************************)
(* The _name2plugin dict, as a function on the names that can be keys:     *)
(* Missing for a name that is not a key, None for a blocked name, else the *)
(* plugin.  The dict's insertion order is not kept: it shows only in which *)
(* of several names get_name answers for a value bound more than once.     *)
(***************************************************************************)
Names == {"p1", "p2", "id3"}

Missing == "<missing>"

DictHas(d, k) == d[k] # Missing

\* d.get(k)
DictGet(d, k) == IF DictHas(d, k) THEN d[k] ELSE None

\* d[k] = v
DictSet(d, k, v) == [d EXCEPT ![k] = v]

\* del d[k]
DictDel(d, k) == [d EXCEPT ![k] = Missing]

\* d.values()
DictValues(d) == {d[k] : k \in {n \in Names : DictHas(d, n)}}

\* truthiness of a value stored in the dict
Truthy(v) == v # None /\ PluginObject(v).truthy

\* PluginManager.get_canonical_name
GetCanonicalName(plugin) ==
    LET n == PluginObject(plugin).__name__
    IN IF n # None /\ n # "" THEN n ELSE PluginObject(plugin).id

\* PluginManager.get_plugin
GetPlugin(n2p, name) == DictGet(n2p, name)

\* PluginManager.has_plugin
HasPlugin(n2p, name) == GetPlugin(n2p, name) # None

\* PluginManager.is_blocked
IsBlocked(n2p, name) == DictHas(n2p, name) /\ DictGet(n2p, name) = None

\* PluginManager.get_name: a name whose value equals the plugin (None when
\* there is none)
GetName(n2p, plugin) ==
    LET hits == {n \in Names : n2p[n] = plugin}
    IN IF hits = {} THEN None ELSE CHOOSE n \in hits : TRUE

\* PluginManager.get_plugins
GetPlugins(n2p) == DictValues(n2p)

\* PluginManager.is_registered
IsRegistered(n2p, plugin) == \E n \in Names : n2p[n] = plugin

(***************************************************************************)
(* PluginManager._verify_hook, register, unregister, set_blocked.           *)
(***************************************************************************)
Return(v) == [raised |-> FALSE, value |-> v]

Raise(e) == [raised |-> TRUE, value |-> e]

\* variant: the argument names are not compared with the spec's
VerifyHookWithoutArgnames(hook, impl) ==
    IF IsHistoric(hook) /\ impl.hookwrapper
    THEN "PluginValidationError"
    ELSE IF impl.hookwrapper /\ ~impl.isgen
    THEN "PluginValidationError"
    ELSE None

\* _verify_hook(hook, hookimpl): None, or the validation error it raises
VerifyHook(hook, impl) ==
    IF IsHistoric(hook) /\ impl.hookwrapper
    THEN "PluginValidationError"
    ELSE IF impl.argnames \ hook.spec.argnames # {}
    THEN "PluginValidationError"
    ELSE IF impl.hookwrapper /\ ~impl.isgen
    THEN "PluginValidationError"
    ELSE None

\* the hook name an implementation attaches under: specname, else the
\* member name
TargetName(impl) ==
    IF impl.specname # None /\ impl.specname # ""
    THEN impl.specname ELSE impl.member

\* variant: the implementation is attached without replaying the history
AttachImplWithoutHistory(hk, engine, impl) ==
    IF ~hk[TargetName(impl)].exists
    THEN [hooks |-> [hk EXCEPT ![TargetName(impl)] = AddHookimpl(NewHookCaller, impl)],
          events |-> << >>, err |-> None]
    ELSE IF HasSpec(hk[TargetName(impl)])
            /\ VerifyHook(hk[TargetName(impl)], impl) # None
    THEN [hooks |-> hk, events |-> << >>,
          err |-> VerifyHook(hk[TargetName(impl)], impl)]
    ELSE [hooks |-> [hk EXCEPT ![TargetName(impl)] = AddHookimpl(@, impl)],
          events |-> << >>, err |-> None]

\* the hook has a spec and the implementation passed _verify_hook: h is what
\* _maybe_apply_history did; attach unless the replay failed
AttachReplayed(hk, name, impl, h) ==
    IF h.err # None THEN [hooks |-> hk, events |-> h.events, err |-> h.err]
    ELSE [hooks |-> [hk EXCEPT ![name] = AddHookimpl(@, impl)],
          events |-> h.events, err |-> None]

\* the body of register's loop for one marked member: find or create the
\* HookCaller, validate against a bound spec, replay history, attach
AttachImpl(hk, engine, impl) ==
    IF ~hk[TargetName(impl)].exists
    THEN [hooks |-> [hk EXCEPT ![TargetName(impl)] = AddHookimpl(NewHookCaller, impl)],
          events |-> << >>, err |-> None]
    ELSE IF ~HasSpec(hk[TargetName(impl)])
    THEN [hooks |-> [hk EXCEPT ![TargetName(impl)] = AddHookimpl(@, impl)],
          events |-> << >>, err |-> None]
    ELSE IF VerifyHook(hk[TargetName(impl)], impl) # None
    THEN [hooks |-> hk, events |-> << >>,
          err |-> VerifyHook(hk[TargetName(impl)], impl)]
    ELSE AttachReplayed(hk, TargetName(impl), impl,
                        MaybeApplyHistory(engine, TargetName(impl),
                                          hk[TargetName(impl)], impl))

\* what the loop has done once r is what the next iteration did
Accumulate(prev, r) ==
    [hooks |-> r.hooks, events |-> prev.events \o r.events, err |-> r.err]

RECURSIVE RegisterLoop(_, _, _, _, _)
\* for name in dir(plugin): ... from the i-th member on, prev being what the
\* earlier iterations did; the loop ends at the first error
RegisterLoop(plugin, plugin_name, i, engine, prev) ==
    IF i > Len(Members(plugin)) \/ prev.err # None THEN prev
    ELSE IF ~Members(plugin)[i].marked
    THEN RegisterLoop(plugin, plugin_name, i + 1, engine, prev)
    ELSE RegisterLoop(plugin, plugin_name, i + 1, engine,
             Accumulate(prev,
                 AttachImpl(prev.hooks, engine,
                            HookImpl(plugin, plugin_name, Members(plugin)[i]))))

\* plugin_name = name or self.get_canonical_name(plugin)
PluginName(plugin, name) ==
    IF name # None /\ name # "" THEN name ELSE GetCanonicalName(plugin)

\* variant: the name check only looks for a blocked name
RegisterCheckNoDuplicateName(n2p, plugin, plugin_name) ==
    IF DictHas(n2p, plugin_name) /\ DictGet(n2p, plugin_name) = None THEN "blocked"
    ELSE IF plugin \in DictValues(n2p) THEN "DuplicatePlugin"
    ELSE "ok"

\* variant: a blocked name is taken for a registered one
RegisterCheckNoBlocked(n2p, plugin, plugin_name) ==
    IF DictHas(n2p, plugin_name) THEN "DuplicateName"
    ELSE IF plugin \in DictValues(n2p) THEN "DuplicatePlugin"
    ELSE "ok"

\* variant: the plugin is not looked up among the registered values
RegisterCheckNoDuplicatePlugin(n2p, plugin, plugin_name) ==
    IF DictHas(n2p, plugin_name)
    THEN IF DictGet(n2p, plugin_name) = None THEN "blocked"
         ELSE "DuplicateName"
    ELSE "ok"

\* the checks register makes before it changes anything
RegisterCheck(n2p, plugin, plugin_name) ==
    IF DictHas(n2p, plugin_name)
    THEN IF DictGet(n2p, plugin_name) = None THEN "blocked"
         ELSE "DuplicateName"
    ELSE IF plugin \in DictValues(n2p) THEN "DuplicatePlugin"
    ELSE "ok"

\* variant: the implementations are attached but the name is not bound
RegisteredWithoutBinding(n2p, plugin, plugin_name, loop) ==
    [n2p |-> n2p,
     hooks |-> loop.hooks,
     result |-> IF loop.err # None THEN Raise(loop.err) ELSE Return(plugin_name),
     events |-> loop.events]

\* register once the name is bound: the outcome of the loop over the members
Registered(n2p, plugin, plugin_name, loop) ==
    [n2p |-> DictSet(n2p, plugin_name, plugin),
     hooks |-> loop.hooks,
     result |-> IF loop.err # None THEN Raise(loop.err) ELSE Return(plugin_name),
     events |-> loop.events]

\* PluginManager.register(plugin, name)
register(n2p, hk, engine, plugin, name) ==
    IF RegisterCheck(n2p, plugin, PluginName(plugin, name)) = "blocked"
    THEN [n2p |-> n2p, hooks |-> hk, result |-> Return(None), events |-> << >>]
    ELSE IF RegisterCheck(n2p, plugin, PluginName(plugin, name)) # "ok"
    THEN [n2p |-> n2p, hooks |-> hk,
          result |-> Raise(RegisterCheck(n2p, plugin, PluginName(plugin, name))),
          events |-> << >>]
    ELSE Registered(n2p, plugin, PluginName(plugin, name),
                    RegisterLoop(plugin, PluginName(plugin, name), 1, engine,
                                 [hooks |-> hk, events |-> << >>, err |-> None]))

\* PluginManager.get_hookcallers(plugin): None for a plugin get_name does not
\* find, else the hook names, one entry per implementation of the plugin
GetHookcallers(n2p, hk, plugin) ==
    IF GetName(n2p, plugin) = None THEN << >>
    ELSE LET RECURSIVE Collect(_)
             Collect(names) ==
                 IF names = {} THEN << >>
                 ELSE LET n == CHOOSE x \in names : TRUE
                          mine == SelectSeq(hk[n].impls,
                                            LAMBDA impl : impl.plugin = plugin)
                      IN [i \in 1..Len(mine) |-> n] \o Collect(names \ {n})
         IN Collect({n \in HookNames : hk[n].exists})

\* variant: only the first of the plugin's hook callers is asked to remove it
RemoveFromFirstHookcaller(hk, hookcallers, plugin) ==
    IF hookcallers = << >> THEN hk
    ELSE [hk EXCEPT ![Head(hookcallers)] = RemovePlugin(@, plugin)]

RECURSIVE RemoveFromHookcallers(_, _, _)
\* for hookcaller in hookcallers: hookcaller._remove_plugin(plugin)
RemoveFromHookcallers(hk, hookcallers, plugin) ==
    IF hookcallers = << >> THEN hk
    ELSE RemoveFromHookcallers(
             [hk EXCEPT ![Head(hookcallers)] = RemovePlugin(@, plugin)],
             Tail(hookcallers), plugin)

\* variant: a plugin that get_name does not find is returned without an error
unregister_without_assert(n2p, hk, plugin, name) ==
    LET name1 == IF name = None /\ plugin # None THEN GetName(n2p, plugin) ELSE name
    IN IF name = None /\ plugin = None
       THEN [n2p |-> n2p, hooks |-> hk, result |-> Raise("AssertionError")]
       ELSE IF name1 = None
       THEN [n2p |-> n2p, hooks |-> hk, result |-> Return(plugin)]
       ELSE [n2p |-> IF Truthy(DictGet(n2p, name1)) THEN DictDel(n2p, name1)
                     ELSE n2p,
             hooks |-> RemoveFromHookcallers(hk,
                           GetHookcallers(n2p, hk,
                               IF plugin = None THEN GetPlugin(n2p, name1) ELSE plugin),
                           IF plugin = None THEN GetPlugin(n2p, name1) ELSE plugin),
             result |-> Return(IF plugin = None THEN GetPlugin(n2p, name1)
                               ELSE plugin)]

\* variant: the entry of the name is deleted whatever its value
unregister_deleting_any_entry(n2p, hk, plugin, name) ==
    LET name1 == IF name = None /\ plugin # None THEN GetName(n2p, plugin) ELSE name
    IN IF name = None /\ plugin = None
       THEN [n2p |-> n2p, hooks |-> hk, result |-> Raise("AssertionError")]
       ELSE IF name1 = None
       THEN [n2p |-> n2p, hooks |-> hk, result |-> Raise("AssertionError")]
       ELSE [n2p |-> DictDel(n2p, name1),
             hooks |-> RemoveFromHookcallers(hk,
                           GetHookcallers(n2p, hk,
                               IF plugin = None THEN GetPlugin(n2p, name1) ELSE plugin),
                           IF plugin = None THEN GetPlugin(n2p, name1) ELSE plugin),
             result |-> Return(IF plugin = None THEN GetPlugin(n2p, name1)
                               ELSE plugin)]

\* variant: the hook callers of the plugin lose all their implementations
unregister_clearing_hookcallers(n2p, hk, plugin, name) ==
    LET name1 == IF name = None /\ plugin # None THEN GetName(n2p, plugin) ELSE name
    IN IF name = None /\ plugin = None
       THEN [n2p |-> n2p, hooks |-> hk, result |-> Raise("AssertionError")]
       ELSE IF name1 = None
       THEN [n2p |-> n2p, hooks |-> hk, result |-> Raise("AssertionError")]
       ELSE [n2p |-> IF Truthy(DictGet(n2p, name1)) THEN DictDel(n2p, name1)
                     ELSE n2p,
             hooks |-> [h \in HookNames |->
                           IF \E i \in 1..Len(hk[h].impls) :
                                  hk[h].impls[i].plugin =
                                      (IF plugin = None THEN GetPlugin(n2p, name1)
                                       ELSE plugin)
                           THEN [hk[h] EXCEPT !.impls = << >>]
                           ELSE hk[h]],
             result |-> Return(IF plugin = None THEN GetPlugin(n2p, name1)
                               ELSE plugin)]

\* PluginManager.unregister(plugin, name); None stands for an argument left out
unregister(n2p, hk, plugin, name) ==
    LET name1 == IF name = None /\ plugin # None THEN GetName(n2p, plugin) ELSE name
        plugin1 == IF plugin = None /\ name1 # None THEN GetPlugin(n2p, name1)
                   ELSE plugin
        hookcallers == GetHookcallers(n2p, hk, plugin1)
    IN IF name = None /\ plugin = None
       THEN [n2p |-> n2p, hooks |-> hk, result |-> Raise("AssertionError")]
       ELSE IF name1 = None
       THEN [n2p |-> n2p, hooks |-> hk, result |-> Raise("AssertionError")]
       ELSE [n2p |-> IF Truthy(DictGet(n2p, name1)) THEN DictDel(n2p, name1)
                     ELSE n2p,
             hooks |-> RemoveFromHookcallers(hk, hookcallers, plugin1),
             result |-> Return(plugin1)]

\* variant: the tombstone is installed without unregistering first
set_blocked_without_unregister(n2p, hk, name) ==
    [n2p |-> DictSet(n2p, name, None), hooks |-> hk,
     unregistered |-> GetPlugin(n2p, name), result |-> Return(None)]

\* self._name2plugin[name] = None, u being what unregister(name=name) did
Blocked(u, name) ==
    [n2p |-> DictSet(u.n2p, name, None), hooks |-> u.hooks,
     unregistered |-> u.result.value, result |-> Return(None)]

\* PluginManager.set_blocked(name)
set_blocked(n2p, hk, name) == Blocked(unregister(n2p, hk, None, name), name)

(***************************************************************************)
(* PluginManager.add_hookspecs and check_pending.                          *)
(***************************************************************************)
RECURSIVE VerifyAll(_, _)
\* for hookfunction in hc.get_hookimpls(): self._verify_hook(hc, hookfunction)
VerifyAll(hook, impls) ==
    IF impls = << >> THEN None
    ELSE IF VerifyHook(hook, Head(impls)) # None THEN VerifyHook(hook, Head(impls))
    ELSE VerifyAll(hook, Tail(impls))

\* the body of add_hookspecs' loop for one marked member: create the
\* HookCaller with the spec, or bind the spec to the existing HookCaller and
\* then validate the implementations it already holds
AddSpec(hk, opts) ==
    LET hc == hk[opts.name]
        bound == SetSpecification(hc, opts)
    IN IF ~hc.exists
       THEN [hooks |-> [hk EXCEPT ![opts.name] = SetSpecification(NewHookCaller, opts)],
             err |-> None]
       ELSE IF HasSpec(hc)
       THEN [hooks |-> hk, err |-> "ValueError"]
       ELSE [hooks |-> [hk EXCEPT ![opts.name] = bound],
             err |-> VerifyAll(bound, bound.impls)]

RECURSIVE AddHookspecsLoop(_, _, _)
AddHookspecsLoop(hk, specs, i) ==
    IF i > Len(specs) THEN [hooks |-> hk, err |-> None]
    ELSE LET r == AddSpec(hk, specs[i])
         IN IF r.err # None THEN r ELSE AddHookspecsLoop(r.hooks, specs, i + 1)

\* PluginManager.add_hookspecs(module_or_class)
add_hookspecs(hk, module) ==
    LET loop == AddHookspecsLoop(hk, ModuleSpecs(module), 1)
    IN [hooks |-> loop.hooks,
        result |-> IF loop.err # None THEN Raise(loop.err)
                   ELSE IF ModuleSpecs(module) = << >> THEN Raise("ValueError")
                   ELSE Return(None)]

\* name[0] == "_"
StartsWithUnderscore(name) == name \in {"_p"}

\* PluginManager.check_pending
check_pending(hk) ==
    IF \E name \in HookNames :
          /\ hk[name].exists
          /\ ~StartsWithUnderscore(name)
          /\ ~HasSpec(hk[name])
          /\ \E i \in 1..Len(hk[name].impls) : ~hk[name].impls[i].optionalhook
    THEN Raise("PluginValidationError")
    ELSE Return(None)

(***************************************************************************)
(* subset_hook_caller and the callers' entry points.                       *)
(***************************************************************************)
NoSubset == [made |-> FALSE, name |-> None, remove |-> {}, removed |-> {}]

\* PluginManager.subset_hook_caller(name, remove_plugins): the original
\* caller (removed = {}) or a _SubsetHookCaller over it
subset_hook_caller(name, remove_plugins) ==
    [made |-> TRUE, name |-> name, remove |-> remove_plugins,
     removed |-> {plug \in remove_plugins : HasAttr(plug, name)}]

\* the implementations a caller hands to the engine: all of the HookCaller's
\* for the HookCaller itself, those of the plugins not removed for a
\* _SubsetHookCaller
CallerImpls(hook, removed) ==
    SelectSeq(hook.impls, LAMBDA impl : impl.plugin \notin removed)

(***************************************************************************)
(* The state machine.                                                      *)
(***************************************************************************)
NoOutcome == [exc |-> FALSE, single |-> FALSE, value |-> << >>]

NoOp == [op |-> "init", plugin |-> None, name |-> None, module |-> None,
         kwargs |-> None, mon |-> 0, remove |-> {}, result |-> Return(None),
         events |-> << >>, methods |-> << >>, outcome |-> NoOutcome]

\* roundtrip.stage: "registered" right after a register that returned a name,
\* with the registry as it was before it; "unregistered" when unregister of
\* that plugin is the very next operation; "none" otherwise
NoTrip == [stage |-> "none", plugin |-> None,
           n2p |-> [n \in Names |-> Missing], hooks |-> [n \in HookNames |-> NoHook]]

Init ==
    /\ name2plugin = [n \in Names |-> Missing]
    /\ hooks = [n \in HookNames |-> NoHook]
    /\ inner_hookexec = << >>
    /\ oldcalls = << >>
    /\ undone = {}
    /\ subset = NoSubset
    /\ lastOp = NoOp
    /\ roundtrip = NoTrip

\* the step of the manager for register(plugin, name), r being what it did
RegisterEffect(plugin, name, r) ==
    /\ name2plugin' = r.n2p
    /\ hooks' = r.hooks
    /\ lastOp' = [NoOp EXCEPT !.op = "register", !.plugin = plugin,
                              !.name = name, !.result = r.result,
                              !.events = r.events]
    /\ roundtrip' = IF ~r.result.raised /\ r.result.value # None
                     THEN [stage |-> "registered", plugin |-> plugin,
                           n2p |-> name2plugin, hooks |-> hooks]
                     ELSE NoTrip
    /\ UNCHANGED <<inner_hookexec, oldcalls, undone, subset>>

\* register(plugin, name), the arguments drawn from the given sets
RegisterOf(plugins, names) ==
    \E plugin \in plugins, name \in names :
        RegisterEffect(plugin, name,
                       register(name2plugin, hooks, inner_hookexec, plugin, name))

UnregisterEffect(plugin, name, r) ==
    /\ name2plugin' = r.n2p
    /\ hooks' = r.hooks
    /\ lastOp' = [NoOp EXCEPT !.op = "unregister", !.plugin = plugin,
                              !.name = name, !.result = r.result]
    /\ roundtrip' = IF /\ roundtrip.stage = "registered"
                        /\ plugin = roundtrip.plugin
                        /\ name = None
                        /\ ~r.result.raised
                     THEN [roundtrip EXCEPT !.stage = "unregistered"]
                     ELSE NoTrip
    /\ UNCHANGED <<inner_hookexec, oldcalls, undone, subset>>

\* unregister(plugin), unregister(name=name), or both and agreeing
UnregisterOf(plugins, names) ==
    \E plugin \in plugins, name \in names :
        /\ (plugin # None /\ name # None) => GetPlugin(name2plugin, name) = plugin
        /\ UnregisterEffect(plugin, name,
                            unregister(name2plugin, hooks, plugin, name))

SetBlockedEffect(name, r) ==
    /\ name2plugin' = r.n2p
    /\ hooks' = r.hooks
    /\ lastOp' = [NoOp EXCEPT !.op = "set_blocked", !.name = name,
                              !.plugin = r.unregistered, !.result = r.result]
    /\ roundtrip' = NoTrip
    /\ UNCHANGED <<inner_hookexec, oldcalls, undone, subset>>

SetBlocked ==
    \E name \in Names : SetBlockedEffect(name, set_blocked(name2plugin, hooks, name))

AddHookspecsEffect(module, r) ==
    /\ hooks' = r.hooks
    /\ lastOp' = [NoOp EXCEPT !.op = "add_hookspecs", !.module = module,
                              !.result = r.result]
    /\ roundtrip' = NoTrip
    /\ UNCHANGED <<name2plugin, inner_hookexec, oldcalls, undone, subset>>

AddHookspecsOf(modules) ==
    \E module \in modules : AddHookspecsEffect(module, add_hookspecs(hooks, module))

CheckPending ==
    /\ lastOp' = [NoOp EXCEPT !.op = "check_pending", !.result = check_pending(hooks)]
    /\ roundtrip' = NoTrip
    /\ UNCHANGED <<name2plugin, hooks, inner_hookexec, oldcalls, undone, subset>>

\* the step of the manager for a call: only lastOp records it
CallEffect(op, name, kwargs, remove, methods, r) ==
    /\ lastOp' = [NoOp EXCEPT !.op = op, !.name = name, !.kwargs = kwargs,
                              !.remove = remove, !.events = r.events,
                              !.methods = methods, !.outcome = r.outcome]
    /\ roundtrip' = NoTrip
    /\ UNCHANGED <<name2plugin, inner_hookexec, oldcalls, undone, subset>>

\* hook.<name>(**kwargs) on a hook that is not historic
HookCallOf(kwargss) ==
    \E name \in HookNames, kwargs \in kwargss :
        /\ hooks[name].exists
        /\ ~IsHistoric(hooks[name])
        /\ CallEffect("call", name, kwargs, {}, CallerImpls(hooks[name], {}),
                      HookExec(inner_hookexec, name, CallerImpls(hooks[name], {}),
                               kwargs, hooks[name].spec.firstresult))
        /\ UNCHANGED hooks

\* hook.<name>.call_historic(kwargs=kwargs): log the call, then run it
CallHistoric ==
    \E name \in HookNames, kwargs \in CallKwargs :
        /\ hooks[name].exists
        /\ IsHistoric(hooks[name])
        /\ Len(hooks[name].history) < MaxHistory
        /\ CallEffect("call_historic", name, kwargs, {},
                      CallerImpls(hooks[name], {}),
                      HookExec(inner_hookexec, name, CallerImpls(hooks[name], {}),
                               kwargs, FALSE))
        /\ hooks' = [hooks EXCEPT ![name].history = Append(@, kwargs)]

AddHookcallMonitoring ==
    /\ Len(oldcalls) < MaxMonitors
    /\ oldcalls' = Append(oldcalls, inner_hookexec)
    /\ inner_hookexec' = Append(inner_hookexec, Len(oldcalls) + 1)
    /\ lastOp' = [NoOp EXCEPT !.op = "add_hookcall_monitoring",
                              !.mon = Len(oldcalls) + 1]
    /\ roundtrip' = NoTrip
    /\ UNCHANGED <<name2plugin, hooks, undone, subset>>

\* the undo() returned by the mon-th add_hookcall_monitoring
Undo ==
    \E mon \in 1..Len(oldcalls) :
        /\ inner_hookexec' = oldcalls[mon]
        /\ undone' = undone \cup {mon}
        /\ lastOp' = [NoOp EXCEPT !.op = "undo", !.mon = mon]
        /\ roundtrip' = NoTrip
        /\ UNCHANGED <<name2plugin, hooks, oldcalls, subset>>

SubsetHookCaller ==
    \E name \in HookNames, remove \in SUBSET Plugins :
        /\ hooks[name].exists
        /\ subset' = subset_hook_caller(name, remove)
        /\ lastOp' = [NoOp EXCEPT !.op = "subset_hook_caller", !.name = name,
                                  !.remove = remove]
        /\ roundtrip' = NoTrip
        /\ UNCHANGED <<name2plugin, hooks, inner_hookexec, oldcalls, undone>>

\* a call through the caller subset_hook_caller returned
SubsetCallOf(kwargss) ==
    \E kwargs \in kwargss :
        /\ subset.made
        /\ ~IsHistoric(hooks[subset.name])
        /\ CallEffect("subset_call", subset.name, kwargs, subset.remove,
                      CallerImpls(hooks[subset.name], subset.removed),
                      HookExec(inner_hookexec, subset.name,
                               CallerImpls(hooks[subset.name], subset.removed),
                               kwargs, hooks[subset.name].spec.firstresult))
        /\ UNCHANGED hooks

Register == RegisterOf(Plugins, ExplicitNames \cup {None})

Unregister == UnregisterOf(Plugins \cup {None}, Names \cup {None})

AddHookspecs == AddHookspecsOf(SpecModules)

HookCall == HookCallOf(CallKwargs)

SubsetCall == SubsetCallOf(CallKwargs)

\* the whole manager
Next ==
    \/ Register
    \/ Unregister
    \/ SetBlocked
    \/ AddHookspecs
    \/ CheckPending
    \/ HookCall
    \/ CallHistoric
    \/ AddHookcallMonitoring
    \/ Undo
    \/ SubsetHookCaller
    \/ SubsetCall

Spec == Init /\ [][Next]_vars

(***************************************************************************)
(* The product of all operations is large; each property is checked on the *)
(* part of the manager it is about, the other operations left out or with  *)
(* their arguments narrowed.                                               *)
(***************************************************************************)

\* the registry alone: registration, blocking, specifications, check_pending
NextRegistry ==
    \/ Register
    \/ Unregister
    \/ SetBlocked
    \/ AddHookspecs
    \/ CheckPending

SpecRegistry == Init /\ [][NextRegistry]_vars

\* register and unregister by plugin alone
RegisterPlugin == RegisterOf(Plugins, {None})

UnregisterPlugin == UnregisterOf(Plugins, {None})

\* historic hooks: plugins come and go around historic calls of hook h
NextHistoric ==
    \/ RegisterPlugin
    \/ UnregisterPlugin
    \/ AddHookspecsOf({"M1", "M2"})
    \/ CallHistoric

SpecHistoric == Init /\ [][NextHistoric]_vars

\* subset hook callers: plugins come and go around calls through a caller
\* that subset_hook_caller returned
NextSubset ==
    \/ RegisterPlugin
    \/ UnregisterPlugin
    \/ AddHookspecsOf({"M3"})
    \/ SubsetHookCaller
    \/ SubsetCallOf({"x=1"})

SpecSubset == Init /\ [][NextSubset]_vars

\* call monitoring: installations and their undo functions around hook calls
NextMonitoring ==
    \/ RegisterPlugin
    \/ AddHookspecsOf({"M3"})
    \/ AddHookcallMonitoring
    \/ Undo
    \/ HookCallOf({"x=1"})

SpecMonitoring == Init /\ [][NextMonitoring]_vars

\* the registry with monitors installed: unregistration next to everything
\* else an unregister has to leave alone
NextUnregister ==
    \/ Register
    \/ Unregister
    \/ SetBlocked
    \/ AddHookspecsOf({"M1", "M3"})
    \/ AddHookcallMonitoring

SpecUnregister == Init /\ [][NextUnregister]_vars

(***************************************************************************)
(* Properties of registration and blocking.                                *)
(***************************************************************************)
\* the places <<hook name, index>> where the HookCallers hold an
\* implementation of the plugin
ImplsOf(hk, plugin) ==
    UNION {{<<h, i>> : i \in {k \in 1..Len(hk[h].impls) :
                                 hk[h].impls[k].plugin = plugin}} :
           h \in HookNames}

LiveNames(n2p) == {n \in Names : HasPlugin(n2p, n)}

\* C1: register(plugin, name) raises the duplicate-name error when the
\* resolved name is bound to a live plugin, and the duplicate-plugin error
\* when the name is free and the plugin is registered under another name; in
\* both cases the name -> plugin mapping and every HookCaller are unchanged.
C1_DuplicateRegistrationRejected ==
    [][lastOp'.op = "register" =>
        LET plugin == lastOp'.plugin
            n == PluginName(plugin, lastOp'.name)
        IN /\ HasPlugin(name2plugin, n) =>
                /\ lastOp'.result = Raise("DuplicateName")
                /\ UNCHANGED <<name2plugin, hooks>>
           /\ (~DictHas(name2plugin, n) /\ IsRegistered(name2plugin, plugin)) =>
                /\ lastOp'.result = Raise("DuplicatePlugin")
                /\ UNCHANGED <<name2plugin, hooks>>]_vars

\* a register of a registered plugin under a free name has been refused
C1_Witness ==
    /\ lastOp.op = "register"
    /\ lastOp.result = Raise("DuplicatePlugin")
    /\ lastOp.name = "p1"
    /\ name2plugin["p1"] = Missing
    /\ ImplsOf(hooks, lastOp.plugin) # {}

\* C2: register under a blocked name returns None without raising and
\* changes nothing: the mapping and every HookCaller are as before (nothing
\* attached, no HookCaller created) and the name is still blocked.
C2_BlockedRegisterIsNoOp ==
    [][(lastOp'.op = "register"
        /\ IsBlocked(name2plugin, PluginName(lastOp'.plugin, lastOp'.name))) =>
            /\ lastOp'.result = Return(None)
            /\ UNCHANGED <<name2plugin, hooks>>
            /\ IsBlocked(name2plugin', PluginName(lastOp'.plugin, lastOp'.name))]_vars

\* a plugin with implementations has been offered under a blocked name
C2_Witness ==
    /\ lastOp.op = "register"
    /\ lastOp.plugin = "P1"
    /\ IsBlocked(name2plugin, PluginName(lastOp.plugin, lastOp.name))
    /\ lastOp.result = Return(None)
    /\ ImplsOf(hooks, "P1") = {}

\* C3: after set_blocked(name) the name is blocked, has_plugin(name) is
\* false, and no HookCaller holds an implementation of the plugin that was
\* registered under the name.
C3_SetBlockedUnregisters ==
    [][lastOp'.op = "set_blocked" =>
        LET n == lastOp'.name
            p == GetPlugin(name2plugin, n)
        IN /\ IsBlocked(name2plugin', n)
           /\ ~HasPlugin(name2plugin', n)
           /\ p # None => ImplsOf(hooks', p) = {}]_vars

\* set_blocked has removed a registered plugin that had implementations
C3_Witness ==
    /\ lastOp.op = "set_blocked"
    /\ lastOp.plugin = "P1"
    /\ IsBlocked(name2plugin, lastOp.name)
    /\ \E h \in HookNames : hooks[h].exists /\ ~HasSpec(hooks[h]) /\ hooks[h].impls = << >>

\* the hook names the plugin's marked members attach under
ContributedTo(plugin) ==
    {TargetName(HookImpl(plugin, None, Members(plugin)[i])) :
        i \in {k \in 1..Len(Members(plugin)) : Members(plugin)[k].marked}}

\* C4: unregister(P) right after a register(P) that succeeded leaves every
\* HookCaller P contributed to with the implementation list it had before
\* the registration, and the name -> plugin mapping as it was before it.
C4_RegisterUnregisterRoundTrip ==
    roundtrip.stage = "unregistered" =>
        /\ name2plugin = roundtrip.n2p
        /\ \A h \in ContributedTo(roundtrip.plugin) :
               hooks[h].impls = roundtrip.hooks[h].impls
        /\ ImplsOf(hooks, roundtrip.plugin) = {}

\* C5: no two distinct names are bound to the same live plugin.
C5_PluginBoundAtMostOnce ==
    \A n1, n2 \in Names :
        (n1 # n2 /\ HasPlugin(name2plugin, n1)) => name2plugin[n1] # name2plugin[n2]

\* a second name for a registered plugin has been refused while another
\* plugin is registered as well
C5_Witness ==
    /\ lastOp.op = "register"
    /\ lastOp.result = Raise("DuplicatePlugin")
    /\ Cardinality(LiveNames(name2plugin)) >= 2

\* C7: no HookCaller whose spec is historic holds a hookwrapper
\* implementation.
C7_NoWrapperOnHistoricHook ==
    \A h \in HookNames :
        IsHistoric(hooks[h]) =>
            \A i \in 1..Len(hooks[h].impls) : ~hooks[h].impls[i].hookwrapper

\* some HookCaller without a spec holds an implementation not marked optional
PendingHook(hk) ==
    \E h \in HookNames :
        /\ hk[h].exists
        /\ ~HasSpec(hk[h])
        /\ \E i \in 1..Len(hk[h].impls) : ~hk[h].impls[i].optionalhook

\* C8: check_pending raises if and only if some HookCaller of the namespace
\* has no spec and holds an implementation not marked optional.
C8_CheckPendingIffPendingHook ==
    lastOp.op = "check_pending" => (lastOp.result.raised <=> PendingHook(hooks))

(***************************************************************************)
(* Properties of historic replay, call monitoring and subset callers.      *)
(***************************************************************************)
RECURSIVE CallsOf(_, _)
\* the kwargs of the invocations of an implementation among the events
CallsOf(events, impl) ==
    IF events = << >> THEN << >>
    ELSE (IF Head(events).kind = "call" /\ Head(events).impl = impl
          THEN << Head(events).kwargs >> ELSE << >>)
         \o CallsOf(Tail(events), impl)

Attached(hook) == {hook.impls[i] : i \in 1..Len(hook.impls)}

\* C6: a register that attaches implementation I to a historic HookCaller
\* with logged calls C1..Cn invokes I exactly once per Ci, in the order
\* C1..Cn, within the register itself, and logs no call.
C6_HistoricReplayOnAttach ==
    [][lastOp'.op = "register" =>
        \A h \in HookNames :
            /\ hooks'[h].history = hooks[h].history
            /\ \A impl \in Attached(hooks'[h]) \ Attached(hooks[h]) :
                   IsHistoric(hooks[h]) =>
                       CallsOf(lastOp'.events, impl) = hooks[h].history]_vars

\* a register has returned after attaching an implementation to a historic
\* hook with two different logged calls, and the implementation saw both
C6_Witness ==
    /\ lastOp.op = "register"
    /\ ~lastOp.result.raised
    /\ IsHistoric(hooks["h"])
    /\ hooks["h"].history = << "x=2", "x=1" >>
    /\ \E impl \in Attached(hooks["h"]) :
           /\ impl.plugin = lastOp.plugin
           /\ CallsOf(lastOp.events, impl) = << "x=2", "x=1" >>

\* C9: once the undo function of an add_hookcall_monitoring installation has
\* been called, no later hook call invokes that installation's before or
\* after.
C9_UndoneMonitorNotInvoked ==
    lastOp.op = "call" =>
        \A i \in 1..Len(lastOp.events) :
            lastOp.events[i].kind \in {"before", "after"} =>
                lastOp.events[i].mon \notin undone

\* C10: a call through the caller subset_hook_caller(name, remove_plugins)
\* returned invokes no implementation of hook name whose plugin is in
\* remove_plugins and runs on every other implementation of the hook.
C10_SubsetCallerExcludesRemoved ==
    lastOp.op = "subset_call" =>
        \A impl \in Attached(hooks[lastOp.name]) :
            IF impl.plugin \in lastOp.remove
            THEN \A i \in 1..Len(lastOp.events) : lastOp.events[i].impl # impl
            ELSE \E i \in 1..Len(lastOp.methods) : lastOp.methods[i] = impl

(***************************************************************************)
(* Properties of unregister, the lookups and failed registrations.         *)
(***************************************************************************)
\* C11 as stated: unregister with only a plugin or only a name raises an
\* assertion error whenever the plugin object is bound to no name, or the
\* name is bound to no live plugin.
C11_UnregisterUnknownRaises ==
    [][lastOp'.op = "unregister" =>
        /\ (lastOp'.name = None /\ ~IsRegistered(name2plugin, lastOp'.plugin)) =>
               lastOp'.result = Raise("AssertionError")
        /\ (lastOp'.plugin = None /\ lastOp'.name # None
            /\ ~HasPlugin(name2plugin, lastOp'.name)) =>
               lastOp'.result = Raise("AssertionError")]_vars

\* C11: unregister with only a plugin that is bound to no name raises an
\* assertion error and changes nothing; unregister with only a name that is
\* bound to no live plugin (free or blocked) raises nothing, returns None and
\* changes nothing.
C11_UnregisterUnknown ==
    [][lastOp'.op = "unregister" =>
        /\ (lastOp'.name = None /\ ~IsRegistered(name2plugin, lastOp'.plugin)) =>
               /\ lastOp'.result = Raise("AssertionError")
               /\ UNCHANGED <<name2plugin, hooks>>
        /\ (lastOp'.plugin = None /\ lastOp'.name # None
            /\ ~HasPlugin(name2plugin, lastOp'.name)) =>
               /\ lastOp'.result = Return(None)
               /\ UNCHANGED <<name2plugin, hooks>>]_vars

\* unregister(name=n) has returned None for a blocked name while a plugin
\* with implementations is registered under another name
C11_Witness ==
    /\ lastOp.op = "unregister"
    /\ lastOp.plugin = None
    /\ lastOp.name # None
    /\ IsBlocked(name2plugin, lastOp.name)
    /\ lastOp.result = Return(None)
    /\ ImplsOf(hooks, "P1") # {}

\* C12: get_plugins() is exactly the set of the plugin objects that are
\* registered; it holds no element standing for a blocked name.
C12_GetPluginsExactlyRegistered ==
    GetPlugins(name2plugin) = {p \in Plugins : IsRegistered(name2plugin, p)}

\* the name an unregister step designates: the one given, else the one the
\* plugin is registered under
UnregisteredName(n2p, op) ==
    IF op.name # None THEN op.name ELSE GetName(n2p, op.plugin)

C14_FailedRegisterChangesNothing ==
    [][(lastOp'.op = "register" /\ lastOp'.result.raised) =>
           UNCHANGED <<name2plugin, hooks>>]_vars

\* the implementation declares an argument the spec bound to the hook lacks
NotInSpec(impl, argnames) == impl.argnames \ argnames # {}

\* C15: a register that gets past its name checks with a member that targets
\* a HookCaller with a bound spec and declares an argument absent from the
\* spec raises the validation error and does not attach that implementation;
\* an add_hookspecs that binds a spec to a HookCaller holding an
\* implementation that declares an argument absent from the spec raises the
\* validation error.
C15_ValidationAtBothAttachmentPoints ==
    [][/\ (/\ lastOp'.op = "register"
           /\ RegisterCheck(name2plugin, lastOp'.plugin,
                            PluginName(lastOp'.plugin, lastOp'.name)) = "ok") =>
              \A i \in 1..Len(Members(lastOp'.plugin)) :
                  LET impl == HookImpl(lastOp'.plugin,
                                       PluginName(lastOp'.plugin, lastOp'.name),
                                       Members(lastOp'.plugin)[i])
                      hook == hooks[TargetName(impl)]
                  IN (/\ Members(lastOp'.plugin)[i].marked
                      /\ HasSpec(hook)
                      /\ NotInSpec(impl, hook.spec.argnames)) =>
                         /\ lastOp'.result = Raise("PluginValidationError")
                         /\ impl \notin Attached(hooks'[TargetName(impl)])
       /\ lastOp'.op = "add_hookspecs" =>
              \A k \in 1..Len(ModuleSpecs(lastOp'.module)) :
                  LET opts == ModuleSpecs(lastOp'.module)[k]
                      hook == hooks[opts.name]
                  IN (/\ hook.exists
                      /\ ~HasSpec(hook)
                      /\ \E impl \in Attached(hook) : NotInSpec(impl, opts.argnames)) =>
                         lastOp'.result = Raise("PluginValidationError")]_vars

\* a register has been refused for an implementation whose argument the
\* bound spec lacks, after another implementation of the plugin was attached
C15_Witness ==
    /\ lastOp.op = "register"
    /\ lastOp.plugin = "P2"
    /\ lastOp.result = Raise("PluginValidationError")
    /\ HasSpec(hooks["g"])
    /\ ~IsHistoric(hooks["h"])
    /\ ImplsOf(hooks, "P2") # {}
    /\ \A impl \in Attached(hooks["g"]) : impl.plugin # "P2"

(***************************************************************************)
(* Properties of call monitoring.                                          *)
(***************************************************************************)
\* what _multicall does for the hook call lastOp records
UnmonitoredCall ==
    Multicall(lastOp.name, lastOp.methods, lastOp.kwargs,
              hooks[lastOp.name].spec.firstresult)

\* C16: a hook call invokes before of every installed monitor, the last
\* installed first, then runs the engine, then invokes after of every
\* installed monitor exactly once in the opposite order, also when the engine
\* raised.
C16_MonitorsNestAroundEngine ==
    lastOp.op = "call" =>
        lastOp.events =
            [k \in 1..Len(inner_hookexec) |->
                Event("before", NoImpl,
                      inner_hookexec[Len(inner_hookexec) + 1 - k], lastOp.kwargs)]
            \o UnmonitoredCall.events
            \o [k \in 1..Len(inner_hookexec) |->
                   Event("after", NoImpl, inner_hookexec[k], lastOp.kwargs)]

\* a hook call whose implementation raised has run under two monitors:
\* before2, before1, the implementation, after1, after2
C16_Witness ==
    /\ lastOp.op = "call"
    /\ inner_hookexec = << 1, 2 >>
    /\ lastOp.outcome.exc
    /\ Len(lastOp.events) = 5
    /\ lastOp.events[1].kind = "before" /\ lastOp.events[1].mon = 2
    /\ lastOp.events[2].kind = "before" /\ lastOp.events[2].mon = 1
    /\ lastOp.events[3].kind = "call"
    /\ lastOp.events[4].kind = "after" /\ lastOp.events[4].mon = 1
    /\ lastOp.events[5].kind = "after" /\ lastOp.events[5].mon = 2

C18_BlockingIsPermanent ==
    [][\A n \in Names :
           (IsBlocked(name2plugin, n)
            \/ (lastOp'.op = "set_blocked" /\ lastOp'.name = n)) =>
               /\ IsBlocked(name2plugin', n)
               /\ ~HasPlugin(name2plugin', n)]_vars

\* unregister(name=n) has been called on a blocked name, which is still
\* blocked
C18_Witness ==
    /\ lastOp.op = "unregister"
    /\ lastOp.plugin = None
    /\ lastOp.name # None
    /\ ~lastOp.result.raised
    /\ IsBlocked(name2plugin, lastOp.name)
    /\ \E n \in Names : HasPlugin(name2plugin, n)

\* C19: every implementation a HookCaller holds belongs to a registered
\* plugin: the name -> plugin mapping binds its plugin_name to its plugin.
C19_AttachedImplsAreRegistered ==
    \A h \in HookNames :
        \A impl \in Attached(hooks[h]) :
            GetPlugin(name2plugin, impl.plugin_name) = impl.plugin

\* a plugin with two implementations on one hook has been unregistered while
\* another plugin keeps an implementation on that hook
C19_Witness ==
    /\ lastOp.op = "unregister"
    /\ lastOp.result = Return("P1")
    /\ ImplsOf(hooks, "P1") = {}
    /\ ~IsRegistered(name2plugin, "P1")
    /\ \E impl \in Attached(hooks["h"]) : impl.plugin = "P3"

\* the implementations of the hook that do not belong to the plugin, in order
ImplsOfOthers(hook, plugin) ==
    SelectSeq(hook.impls, LAMBDA impl : impl.plugin # plugin)

\* C20: an unregister step changes no name binding and no blocked name other
\* than the name it designates, leaves the implementations of all other
\* plugins in every HookCaller in the same order, keeps every HookCaller in
\* the namespace with its spec, and leaves the installed call engine alone.
C20_UnregisterTouchesOnlyItsPlugin ==
    [][lastOp'.op = "unregister" =>
        /\ \A n \in Names :
               n # UnregisteredName(name2plugin, lastOp') =>
                   name2plugin'[n] = name2plugin[n]
        /\ \A h \in HookNames :
               /\ hooks'[h].exists = hooks[h].exists
               /\ hooks'[h].spec = hooks[h].spec
               /\ hooks'[h].history = hooks[h].history
               /\ ImplsOfOthers(hooks'[h], lastOp'.result.value)
                      = ImplsOfOthers(hooks[h], lastOp'.result.value)
        /\ lastOp'.result.raised => hooks' = hooks
        /\ inner_hookexec' = inner_hookexec
        /\ oldcalls' = oldcalls]_vars

\* a plugin has been unregistered under a monitor: its hook is left empty
\* with its spec, another plugin's implementations and a blocked name remain
C20_Witness ==
    /\ lastOp.op = "unregister"
    /\ lastOp.result = Return("P2")
    /\ inner_hookexec # << >>
    /\ hooks["_p"].exists /\ HasSpec(hooks["_p"]) /\ hooks["_p"].impls = << >>
    /\ Len(hooks["h"].impls) = 2
    /\ \E n \in Names : IsBlocked(name2plugin, n)

====
